---- MODULE Spec2Model ----
(***************************************************************************)
(* CareerMate (src/streamlit_app.py): a Streamlit script that keeps a chat *)
(* transcript in st.session_state, answers every chat input with a         *)
(* streamed model completion and, on the /brief command, first adds a      *)
(* system message built from cached news and event look-ups.               *)
(*                                                                         *)
(* Streamlit executes the script top to bottom once per widget event (a    *)
(* "run").  The model follows one browser session: pc is the position of   *)
(* the running script, "idle" between two runs.  Text is a sequence of     *)
(* string tokens: user input is a sequence of characters, prompts are      *)
(* sequences of literal pieces and interpolated values, and string         *)
(* concatenation is \o.                                                    *)
(***************************************************************************)
EXTENDS Integers, Sequences, FiniteSets, TLC

(***************************************************************************)
(* Bounds of the model.                                                    *)
(***************************************************************************)
\* chat inputs accepted in one session
MaxInputs == 2
\* sidebar edits in one session
MaxEdits == 1
\* text fragments one model stream delivers at most
MaxChunks == 2

(***************************************************************************)
(* Strings.                                                                *)
(***************************************************************************)
Whitespace == {" "}

LowerChar(c) ==
    CASE c = "B" -> "b"
      [] c = "R" -> "r"
      [] c = "I" -> "i"
      [] c = "E" -> "e"
      [] c = "F" -> "f"
      [] OTHER -> c

\* str.lower()
Lower(s) == [i \in 1..Len(s) |-> LowerChar(s[i])]

RECURSIVE LStrip(_)
LStrip(s) ==
    IF s # <<>> /\ Head(s) \in Whitespace THEN LStrip(Tail(s)) ELSE s

RECURSIVE RStrip(_)
RStrip(s) ==
    IF s # <<>> /\ s[Len(s)] \in Whitespace
    THEN RStrip(SubSeq(s, 1, Len(s) - 1))
    ELSE s

\* str.strip()
Strip(s) == RStrip(LStrip(s))

\* str.startswith(prefix)
StartsWith(s, prefix) ==
    /\ Len(s) >= Len(prefix)
    /\ SubSeq(s, 1, Len(prefix)) = prefix

\* s[:n]
Prefix(s, n) == SubSeq(s, 1, IF Len(s) < n THEN Len(s) ELSE n)

BriefCommand == <<"/", "b", "r", "i", "e", "f">>

IsBriefCommandUntrimmed(text) == StartsWith(Lower(text), BriefCommand)

\* line 167: user_input.strip().lower().startswith("/brief")
IsBriefCommand(text) == StartsWith(Lower(Strip(text)), BriefCommand)

\* Python truthiness of the value st.chat_input returns (None or a string)
Truthy(text) == text # <<>>

\* "sep".join(lines), every line a token sequence
RECURSIVE Join(_, _)
Join(sep, lines) ==
    IF lines = <<>> THEN <<>>
    ELSE IF Len(lines) = 1 THEN lines[1]
    ELSE lines[1] \o <<sep>> \o Join(sep, Tail(lines))

Turn(role, content) == [role |-> role, content |-> content]

(***************************************************************************)
(* Values the environment supplies.                                        *)
(***************************************************************************)
OpenAIKeys == {"", "sk-1"}
NewsKeys == {"", "nk-1"}
EventKeys == {"", "ek-1"}
Professions == {"", "designer"}
Locations == {"", "Seoul"}

\* dt.datetime.now().strftime("%Y-%m-%d")
Today == "2025-06-01"

NoInput == <<>>
InputHello == <<"h", "i">>
InputBlank == <<" ", " ">>
InputBrief == <<"/", "b", "r", "i", "e", "f">>
InputBriefUpper == <<" ", "/", "B", "R", "I", "E", "F", " ", "x">>
InputNotPrefix == <<"a", "/", "b", "r", "i", "e", "f">>

InputBriefing == <<"/", "b", "r", "i", "e", "f", "i", "n", "g">>

\* what st.chat_input can return when the user submits
ChatInputs == {InputHello, InputBlank, InputBrief}

\* the n-th text fragment of a model stream
Fragment(n) ==
    CASE n = 1 -> "Hel"
      [] n = 2 -> "lo"
      [] OTHER -> "!"

(***************************************************************************)
(* External data: provider responses and the two look-ups.                 *)
(*                                                                         *)
(* A provider response is [kind, data]: kind "network_error" makes         *)
(* requests.get raise, "http_error" makes raise_for_status raise,          *)
(* "malformed_json" makes res.json() raise, and "ok" delivers data, the    *)
(* decoded JSON object.  JSON objects are records; a key the provider      *)
(* left out is a field missing from the record.                            *)
(***************************************************************************)
\* "pageSize": 3
PageSize == 3
\* data.get("events", [])[:3]
EventLimit == 3
\* dt.timedelta(days=30)
WindowDays == 30
\* requests.get(..., timeout=10)
TimeoutSeconds == 10
\* ev["start"]["local"][:10]
DateLen == 10

\* JSON null
None == [null |-> TRUE]

NoData == [empty |-> TRUE]

\* no request has been sent, so there is no reply
NoReply == [kind |-> "none", data |-> NoData]

ArticleA == [title |-> "A", url |-> "http://a", source |-> [name |-> "S"]]
ArticleB == [title |-> "B", url |-> "http://b", source |-> [name |-> "T"]]
ArticleNoTitle == [url |-> "http://c", source |-> [name |-> "S"]]

NewsResponses ==
    { [kind |-> "network_error", data |-> NoData],
      [kind |-> "http_error", data |-> NoData],
      [kind |-> "malformed_json", data |-> NoData],
      [kind |-> "ok", data |-> [status |-> "ok"]],
      [kind |-> "ok", data |-> [articles |-> <<ArticleA>>]],
      [kind |-> "ok", data |-> [articles |-> <<ArticleB, ArticleA>>]],
      [kind |-> "ok", data |-> [articles |-> <<ArticleA, ArticleNoTitle>>]] }

LocalStart ==
    <<"2", "0", "2", "5", "-", "0", "6", "-", "1", "0",
      "T", "1", "9", ":", "0", "0", ":", "0", "0">>

Event1 ==
    [name |-> [text |-> "Meetup"], url |-> "http://e1",
     start |-> [local |-> LocalStart], venue |-> [name |-> "Hall"]]
EventNoVenue ==
    [name |-> [text |-> "Talk"], url |-> "http://e2",
     start |-> [local |-> LocalStart]]
EventVenueNoName ==
    [name |-> [text |-> "Fair"], url |-> "http://e3",
     start |-> [local |-> LocalStart], venue |-> [id |-> "7"]]
EventNullVenue ==
    [name |-> [text |-> "Online"], url |-> "http://e4",
     start |-> [local |-> LocalStart], venue |-> None]
EventNoName ==
    [url |-> "http://e5", start |-> [local |-> LocalStart],
     venue |-> [name |-> "Hall"]]

EventResponses ==
    { [kind |-> "network_error", data |-> NoData],
      [kind |-> "http_error", data |-> NoData],
      [kind |-> "malformed_json", data |-> NoData],
      [kind |-> "ok", data |-> [events |-> <<>>]],
      [kind |-> "ok", data |-> [events |-> <<Event1>>]],
      [kind |-> "ok",
       data |-> [events |-> <<Event1, EventNoVenue, EventVenueNoName, EventNoName>>]],
      [kind |-> "ok", data |-> [events |-> <<EventNullVenue>>]],
      [kind |-> "ok", data |-> [events |-> <<Event1, EventNoName>>]] }

\* the provider replies drawn while a session is followed
SessionNewsResponses ==
    { [kind |-> "network_error", data |-> NoData],
      [kind |-> "ok", data |-> [articles |-> <<ArticleA>>]] }

SessionEventResponses ==
    { [kind |-> "http_error", data |-> NoData],
      [kind |-> "ok", data |-> [events |-> <<Event1>>]] }

\* lines 50-57: the request _query_news sends
NewsRequest(profession_, key) ==
    [url |-> "https://newsapi.org/v2/everything",
     q |-> IF profession_ # "" THEN profession_ ELSE "career",
     language |-> "ko,en",
     sortBy |-> "publishedAt",
     pageSize |-> PageSize,
     credential |-> key,
     timeout |-> TimeoutSeconds]

\* lines 76-84: the request _query_events sends
EventsRequest(location_, profession_, key) ==
    [url |-> "https://www.eventbriteapi.com/v3/events/search/",
     q |-> IF profession_ # "" THEN profession_ ELSE "networking",
     address |-> location_,
     range_start |-> "utcnow",
     range_days |-> WindowDays,
     credential |-> key,
     expand |-> "venue",
     timeout |-> TimeoutSeconds]

\* data.get("articles", [])
ArticlesOf(data) == IF "articles" \in DOMAIN data THEN data.articles ELSE <<>>

\* art["title"], art["url"], art["source"]["name"] all subscript without raising
ArticleReadable(art) ==
    /\ {"title", "url", "source"} \subseteq DOMAIN art
    /\ "name" \in DOMAIN art.source

\* line 63
NewsItem(art) == [title |-> art.title, url |-> art.url, source |-> art.source.name]

\* data.get("events", [])[:3]
EventsOf(data) ==
    Prefix(IF "events" \in DOMAIN data THEN data.events ELSE <<>>, EventLimit)

\* ev["name"]["text"], ev["url"], ev["start"]["local"] subscript without raising and
\* ev.get("venue", {}) is an object that has .get
EventReadable(ev) ==
    /\ {"name", "url", "start"} \subseteq DOMAIN ev
    /\ "text" \in DOMAIN ev.name
    /\ "local" \in DOMAIN ev.start
    /\ "venue" \in DOMAIN ev => ev.venue # None

\* ev.get("venue", {}).get("name", "")
VenueName(ev) ==
    IF "venue" \in DOMAIN ev /\ "name" \in DOMAIN ev.venue THEN ev.venue.name ELSE ""

\* lines 92-97
EventItem(ev) ==
    [name |-> ev.name.text, url |-> ev.url,
     start |-> Prefix(ev.start.local, DateLen), venue |-> VenueName(ev)]

\* A look-up yields the list it returns, the requests it sent, the warnings it
\* showed and whether an exception left it.
Fetched(result, requests, warnings, raised) ==
    [result |-> result, requests |-> requests, warnings |-> warnings, raised |-> raised]

\* the body of the try block of _query_news (lines 59-65) raises
NewsTryRaises(resp) ==
    \/ resp.kind # "ok"
    \/ \E i \in 1..Len(ArticlesOf(resp.data)) : ~ArticleReadable(ArticlesOf(resp.data)[i])

QueryNewsNarrowExcept(key, profession_, resp) ==
    IF key = "" THEN Fetched(<<>>, <<>>, 0, FALSE)
    ELSE IF resp.kind \in {"network_error", "http_error"}
    THEN Fetched(<<>>, <<NewsRequest(profession_, key)>>, 1, FALSE)
    ELSE IF NewsTryRaises(resp)
    THEN Fetched(<<>>, <<NewsRequest(profession_, key)>>, 0, TRUE)
    ELSE Fetched([i \in 1..Len(ArticlesOf(resp.data)) |-> NewsItem(ArticlesOf(resp.data)[i])],
                 <<NewsRequest(profession_, key)>>, 0, FALSE)

\* lines 46-68
QueryNews(key, profession_, resp) ==
    IF key = "" THEN Fetched(<<>>, <<>>, 0, FALSE)
    ELSE IF NewsTryRaises(resp)
    THEN Fetched(<<>>, <<NewsRequest(profession_, key)>>, 1, FALSE)
    ELSE Fetched([i \in 1..Len(ArticlesOf(resp.data)) |-> NewsItem(ArticlesOf(resp.data)[i])],
                 <<NewsRequest(profession_, key)>>, 0, FALSE)

\* the body of the try block of _query_events (lines 86-99) raises
EventsTryRaises(resp) ==
    \/ resp.kind # "ok"
    \/ \E i \in 1..Len(EventsOf(resp.data)) : ~EventReadable(EventsOf(resp.data)[i])

\* lines 71-102
QueryEvents(key, location_, profession_, resp) ==
    IF key = "" \/ location_ = "" THEN Fetched(<<>>, <<>>, 0, FALSE)
    ELSE IF EventsTryRaises(resp)
    THEN Fetched(<<>>, <<EventsRequest(location_, profession_, key)>>, 1, FALSE)
    ELSE Fetched([i \in 1..Len(EventsOf(resp.data)) |-> EventItem(EventsOf(resp.data)[i])],
                 <<EventsRequest(location_, profession_, key)>>, 0, FALSE)

(***************************************************************************)
(* Prompts.                                                                *)
(***************************************************************************)
\* lines 114-129
BuildSystemPrompt(profession_, location_, date_str) ==
    <<"You are CareerMate, a multilingual professional assistant. ",
      "Today's date is ", date_str, ".">>
    \o (IF profession_ # "" THEN <<" The user's profession is '", profession_, "'.">>
        ELSE <<>>)
    \o (IF location_ # "" THEN <<" The user is located in ", location_, ".">> ELSE <<>>)
    \o <<" Curate relevant news and events, and provide clear, concise, and actionable feedback. ",
         "When asked for a daily briefing, provide a bullet summary in Korean, then offer deeper dives.">>

NewsLine(n) == <<"- ", n.title, " (", n.source, ")">>

EventLine(e) == <<"- ">> \o e.start \o <<" ", e.name, " @ ", e.venue>>

BriefingInstruction ==
    "Please craft a Korean daily briefing in bullet points (max 120 words), then suggest next actions."

BriefingContextMarkerOnNoNews(news_, events_) ==
    <<"You gathered the following data:\n\n">>
    \o (IF news_ # <<>>
        THEN <<"Recent news headlines:\n">>
             \o Join("\n", [i \in 1..Len(news_) |-> NewsLine(news_[i])]) \o <<"\n\n">>
        ELSE <<>>)
    \o (IF events_ # <<>>
        THEN <<"Upcoming events:\n">>
             \o Join("\n", [i \in 1..Len(events_) |-> EventLine(events_[i])]) \o <<"\n\n">>
        ELSE <<>>)
    \o (IF news_ = <<>> THEN <<"(No external data available)\n\n">> ELSE <<>>)
    \o <<BriefingInstruction>>

\* lines 172-181
BriefingContext(news_, events_) ==
    <<"You gathered the following data:\n\n">>
    \o (IF news_ # <<>>
        THEN <<"Recent news headlines:\n">>
             \o Join("\n", [i \in 1..Len(news_) |-> NewsLine(news_[i])]) \o <<"\n\n">>
        ELSE <<>>)
    \o (IF events_ # <<>>
        THEN <<"Upcoming events:\n">>
             \o Join("\n", [i \in 1..Len(events_) |-> EventLine(events_[i])]) \o <<"\n\n">>
        ELSE <<>>)
    \o (IF news_ = <<>> /\ events_ = <<>> THEN <<"(No external data available)\n\n">>
        ELSE <<>>)
    \o <<BriefingInstruction>>

DisplayAll(msgs) == msgs

\* lines 150-154: the chat messages the replay loop draws
RECURSIVE DisplayLoop(_)
DisplayLoop(msgs) ==
    IF msgs = <<>> THEN <<>>
    ELSE IF Head(msgs).role = "system" THEN DisplayLoop(Tail(msgs))
    ELSE <<Head(msgs)>> \o DisplayLoop(Tail(msgs))

(***************************************************************************)
(* State.                                                                  *)
(***************************************************************************)
VARIABLES
    openai_api_key,  \* line 23, the sidebar widget's value
    news_api_key,    \* line 24
    event_api_key,   \* line 25
    profession,      \* line 27
    location,        \* line 28
    has_messages,    \* "messages" in st.session_state
    messages,        \* st.session_state.messages, the transcript
    cache,           \* st.cache_data of fetch_news_and_events: arguments -> returned tuple
    pc,              \* position of the running script, "idle" between two runs
    user_input,      \* line 157, the value st.chat_input returned to this run
    news,            \* line 169
    events,          \* line 169
    response_text,   \* text st.write_stream has written so far, its return value at the end
    payload,         \* messages= of the model call of this run, <<>> before the call
    surface,         \* chat messages this run has drawn on the page
    warnings,        \* st.warning boxes this run has drawn
    requests,        \* provider requests this run has sent
    response,        \* the provider's reply to the latest of them
    run_result,      \* how the latest finished run ended
    run_base,        \* length of the transcript when this run started
    cache_hit,       \* this run's fetch_news_and_events call was served from the cache
    first_returned,  \* arguments -> the tuple the first fetch_news_and_events call returned
    seen_before,     \* fetch_news_and_events had returned for this run's arguments before
    input_count,     \* chat inputs submitted so far
    edit_count       \* sidebar edits so far

settings == <<openai_api_key, news_api_key, event_api_key, profession, location>>

session == <<has_messages, messages>>

page == <<surface, warnings>>

network == <<requests, response>>

fetch_locals == <<news, events, cache_hit, seen_before>>

model_locals == <<response_text, payload>>

counters == <<run_base, input_count, edit_count>>

vars ==
    <<settings, session, cache, pc, user_input, fetch_locals, model_locals, page, network,
      run_result, first_returned, counters>>

EmptyMap == [k \in {} |-> <<>>]

Put(map, k, v) == [x \in DOMAIN map \cup {k} |-> IF x = k THEN v ELSE map[x]]

CacheKeyWithCredentials == <<profession, location, news_api_key, event_api_key>>

\* the arguments of the fetch_news_and_events call of line 169
CacheKey == <<profession, location>>

\* Nothing has run yet: no transcript, an empty cache, an empty page.
FreshSession ==
    /\ has_messages = FALSE
    /\ messages = <<>>
    /\ cache = EmptyMap
    /\ user_input = NoInput
    /\ news = <<>>
    /\ events = <<>>
    /\ response_text = <<>>
    /\ payload = <<>>
    /\ surface = <<>>
    /\ warnings = 0
    /\ requests = <<>>
    /\ response = NoReply
    /\ run_result = "none"
    /\ run_base = 0
    /\ cache_hit = FALSE
    /\ first_returned = EmptyMap
    /\ seen_before = FALSE
    /\ input_count = 0
    /\ edit_count = 0

\* The script runs for the first time when the page is opened: the widgets hold
\* their defaults (the environment's keys, empty profession and location).
Init ==
    /\ openai_api_key \in OpenAIKeys
    /\ news_api_key \in NewsKeys
    /\ event_api_key \in EventKeys
    /\ profession = ""
    /\ location = ""
    /\ pc = "validate"
    /\ FreshSession

\* A widget event starts the script from the top with a fresh page.
StartRun(text) ==
    /\ pc' = "validate"
    /\ user_input' = text
    /\ news' = <<>>
    /\ events' = <<>>
    /\ response_text' = <<>>
    /\ payload' = <<>>
    /\ surface' = <<>>
    /\ warnings' = 0
    /\ requests' = <<>>
    /\ response' = NoReply
    /\ run_base' = Len(messages)
    /\ cache_hit' = FALSE
    /\ seen_before' = FALSE
    /\ UNCHANGED <<session, cache, run_result, first_returned>>

\* lines 23-28: the user edits one sidebar field; st.chat_input returns None
EditSetting ==
    /\ pc = "idle"
    /\ edit_count < MaxEdits
    /\ edit_count' = edit_count + 1
    /\ \/ /\ openai_api_key' \in OpenAIKeys \ {openai_api_key}
          /\ UNCHANGED <<news_api_key, event_api_key, profession, location>>
       \/ /\ news_api_key' \in NewsKeys \ {news_api_key}
          /\ UNCHANGED <<openai_api_key, event_api_key, profession, location>>
       \/ /\ event_api_key' \in EventKeys \ {event_api_key}
          /\ UNCHANGED <<openai_api_key, news_api_key, profession, location>>
       \/ /\ profession' \in Professions \ {profession}
          /\ UNCHANGED <<openai_api_key, news_api_key, event_api_key, location>>
       \/ /\ location' \in Locations \ {location}
          /\ UNCHANGED <<openai_api_key, news_api_key, event_api_key, profession>>
    /\ StartRun(NoInput)
    /\ UNCHANGED input_count

\* line 157: the user submits the chat box, which is on the page when the
\* previous run got as far as drawing it
SubmitInput ==
    /\ pc = "idle"
    /\ run_result \in {"no_input", "completed", "exception"}
    /\ input_count < MaxInputs
    /\ \E text \in ChatInputs : StartRun(text)
    /\ input_count' = input_count + 1
    /\ UNCHANGED <<settings, edit_count>>

EndRun(result) ==
    /\ pc' = "idle"
    /\ run_result' = result

ValidateWithoutStop ==
    /\ pc = "validate"
    /\ pc' = "init"
    /\ UNCHANGED <<settings, session, cache, user_input, fetch_locals, model_locals, page,
                   network, run_result, first_returned, counters>>

\* lines 35-37
Validate ==
    /\ pc = "validate"
    /\ IF openai_api_key = "" THEN EndRun("stopped")
       ELSE pc' = "init" /\ UNCHANGED run_result
    /\ UNCHANGED <<settings, session, cache, user_input, fetch_locals, model_locals, page,
                   network, first_returned, counters>>

InitSessionStateAlways ==
    /\ pc = "init"
    /\ has_messages' = TRUE
    /\ messages' = <<Turn("system", BuildSystemPrompt(profession, location, Today))>>
    /\ pc' = "display"
    /\ UNCHANGED <<settings, cache, user_input, fetch_locals, model_locals, page, network,
                   run_result, first_returned, counters>>

InitSessionStateAppending ==
    /\ pc = "init"
    /\ has_messages' = TRUE
    /\ messages' =
           Append(messages, Turn("system", BuildSystemPrompt(profession, location, Today)))
    /\ pc' = "display"
    /\ UNCHANGED <<settings, cache, user_input, fetch_locals, model_locals, page, network,
                   run_result, first_returned, counters>>

\* lines 145-147
InitSessionState ==
    /\ pc = "init"
    /\ IF ~has_messages
       THEN /\ has_messages' = TRUE
            /\ messages' = <<Turn("system", BuildSystemPrompt(profession, location, Today))>>
       ELSE UNCHANGED session
    /\ pc' = "display"
    /\ UNCHANGED <<settings, cache, user_input, fetch_locals, model_locals, page, network,
                   run_result, first_returned, counters>>

\* lines 150-154
DisplayMessages ==
    /\ pc = "display"
    /\ surface' = DisplayLoop(messages)
    /\ pc' = "chat_input"
    /\ UNCHANGED <<settings, session, cache, user_input, fetch_locals, model_locals,
                   warnings, network, run_result, first_returned, counters>>

\* lines 157-164, and line 203 when there is no input
ChatInput ==
    /\ pc = "chat_input"
    /\ IF Truthy(user_input)
       THEN /\ messages' = Append(messages, Turn("user", user_input))
            /\ surface' = Append(surface, Turn("user", user_input))
            /\ pc' = "route"
            /\ UNCHANGED run_result
       ELSE /\ EndRun("no_input")
            /\ UNCHANGED <<messages, surface>>
    /\ UNCHANGED <<settings, has_messages, cache, user_input, fetch_locals, model_locals,
                   warnings, network, first_returned, counters>>

\* line 167
Route ==
    /\ pc = "route"
    /\ pc' = IF IsBriefCommand(user_input) THEN "fetch" ELSE "call_model"
    /\ UNCHANGED <<settings, session, cache, user_input, fetch_locals, model_locals, page,
                   network, run_result, first_returned, counters>>

FetchUncached ==
    /\ pc = "fetch"
    /\ seen_before' = (CacheKey \in DOMAIN first_returned)
    /\ pc' = "query_news"
    /\ UNCHANGED <<settings, session, cache, user_input, news, events, cache_hit,
                   model_locals, page, network, run_result, first_returned, counters>>

\* lines 106-108 and 169: the cached call; a hit returns the stored tuple
FetchNewsAndEvents ==
    /\ pc = "fetch"
    /\ seen_before' = (CacheKey \in DOMAIN first_returned)
    /\ IF CacheKey \in DOMAIN cache
       THEN /\ news' = cache[CacheKey][1]
            /\ events' = cache[CacheKey][2]
            /\ cache_hit' = TRUE
            /\ pc' = "augment"
       ELSE /\ pc' = "query_news"
            /\ UNCHANGED <<news, events, cache_hit>>
    /\ UNCHANGED <<settings, session, cache, user_input, model_locals, page, network,
                   run_result, first_returned, counters>>

QueryNewsStepUnawaited ==
    /\ pc = "query_news"
    /\ \E resp \in SessionNewsResponses :
          LET r == QueryNews(news_api_key, profession, resp) IN
          /\ requests' = requests \o r.requests
          /\ response' = IF r.requests = <<>> THEN response ELSE resp
          /\ warnings' = warnings + r.warnings
          /\ news' = r.result
          /\ pc' = "augment"
    /\ UNCHANGED <<settings, session, cache, user_input, events, cache_hit, seen_before,
                   model_locals, surface, run_result, first_returned, counters>>

\* line 108, first element: _query_news(profession)
QueryNewsStep ==
    /\ pc = "query_news"
    /\ \E resp \in SessionNewsResponses :
          LET r == QueryNews(news_api_key, profession, resp) IN
          /\ requests' = requests \o r.requests
          /\ response' = IF r.requests = <<>> THEN response ELSE resp
          /\ warnings' = warnings + r.warnings
          /\ IF r.raised
             THEN EndRun("exception") /\ UNCHANGED news
             ELSE news' = r.result /\ pc' = "query_events" /\ UNCHANGED run_result
    /\ UNCHANGED <<settings, session, cache, user_input, events, cache_hit, seen_before,
                   model_locals, surface, first_returned, counters>>

\* line 108, second element: _query_events(location, profession); then the
\* returned tuple is stored under the call's arguments
QueryEventsStep ==
    /\ pc = "query_events"
    /\ \E resp \in SessionEventResponses :
          LET r == QueryEvents(event_api_key, location, profession, resp) IN
          /\ requests' = requests \o r.requests
          /\ response' = IF r.requests = <<>> THEN response ELSE resp
          /\ warnings' = warnings + r.warnings
          /\ IF r.raised
             THEN /\ EndRun("exception")
                  /\ UNCHANGED <<events, cache, first_returned>>
             ELSE /\ events' = r.result
                  /\ cache' = Put(cache, CacheKey, <<news, r.result>>)
                  /\ first_returned' =
                         IF CacheKey \in DOMAIN first_returned THEN first_returned
                         ELSE Put(first_returned, CacheKey, <<news, r.result>>)
                  /\ pc' = "augment"
                  /\ UNCHANGED run_result
    /\ UNCHANGED <<settings, session, user_input, news, cache_hit, seen_before,
                   model_locals, surface, counters>>

\* lines 172-184
AppendBriefing ==
    /\ pc = "augment"
    /\ messages' = Append(messages, Turn("system", BriefingContext(news, events)))
    /\ pc' = "call_model"
    /\ UNCHANGED <<settings, has_messages, cache, user_input, fetch_locals, model_locals,
                   page, network, run_result, first_returned, counters>>

CallModelVisibleOnly ==
    /\ pc = "call_model"
    /\ payload' = DisplayLoop(messages)
    /\ surface' = Append(surface, Turn("assistant", <<>>))
    /\ pc' = "streaming"
    /\ UNCHANGED <<settings, session, cache, user_input, fetch_locals, response_text,
                   warnings, network, run_result, first_returned, counters>>

\* lines 187-196: the request carries every message of the transcript
CallModel ==
    /\ pc = "call_model"
    /\ payload' = [i \in 1..Len(messages) |->
                      [role |-> messages[i].role, content |-> messages[i].content]]
    /\ surface' = Append(surface, Turn("assistant", <<>>))
    /\ pc' = "streaming"
    /\ UNCHANGED <<settings, session, cache, user_input, fetch_locals, response_text,
                   warnings, network, run_result, first_returned, counters>>

StreamChunkSaved ==
    /\ pc = "streaming"
    /\ Len(response_text) < MaxChunks
    /\ LET c == Fragment(Len(response_text) + 1) IN
          /\ response_text' = Append(response_text, c)
          /\ surface' = [surface EXCEPT ![Len(surface)].content = Append(@, c)]
          /\ messages' = Append(messages, Turn("assistant", <<c>>))
    /\ UNCHANGED <<settings, has_messages, cache, pc, user_input, fetch_locals, payload,
                   warnings, network, run_result, first_returned, counters>>

\* line 197: st.write_stream draws one more fragment
StreamChunk ==
    /\ pc = "streaming"
    /\ Len(response_text) < MaxChunks
    /\ LET c == Fragment(Len(response_text) + 1) IN
          /\ response_text' = Append(response_text, c)
          /\ surface' = [surface EXCEPT ![Len(surface)].content = Append(@, c)]
    /\ UNCHANGED <<settings, session, cache, pc, user_input, fetch_locals, payload,
                   warnings, network, run_result, first_returned, counters>>

StreamEndSkippingEmpty ==
    /\ pc = "streaming"
    /\ messages' = IF response_text = <<>> THEN messages
                   ELSE Append(messages, Turn("assistant", response_text))
    /\ EndRun("completed")
    /\ UNCHANGED <<settings, has_messages, cache, user_input, fetch_locals, model_locals,
                   page, network, first_returned, counters>>

\* lines 197-203: the stream ends, st.write_stream returns the text
StreamEnd ==
    /\ pc = "streaming"
    /\ messages' = Append(messages, Turn("assistant", response_text))
    /\ EndRun("completed")
    /\ UNCHANGED <<settings, has_messages, cache, user_input, fetch_locals, model_locals,
                   page, network, first_returned, counters>>

\* lines 189-197: the model call or the stream raises; nothing catches it and
\* Streamlit ends the run
StreamError ==
    /\ pc = "streaming"
    /\ EndRun("exception")
    /\ UNCHANGED <<settings, session, cache, user_input, fetch_locals, model_locals, page,
                   network, first_returned, counters>>

Next ==
    \/ EditSetting
    \/ SubmitInput
    \/ Validate
    \/ InitSessionState
    \/ DisplayMessages
    \/ ChatInput
    \/ Route
    \/ FetchNewsAndEvents
    \/ QueryNewsStep
    \/ QueryEventsStep
    \/ AppendBriefing
    \/ CallModel
    \/ StreamChunk
    \/ StreamEnd
    \/ StreamError

Spec == Init /\ [][Next]_vars

(***************************************************************************)
(* The two look-ups on their own: _query_news and _query_events called     *)
(* directly, over every credential, profession, location and provider      *)
(* reply.                                                                  *)
(***************************************************************************)
LookupInit ==
    /\ openai_api_key \in OpenAIKeys
    /\ news_api_key \in NewsKeys
    /\ event_api_key \in EventKeys
    /\ profession \in Professions
    /\ location \in Locations
    /\ pc = "lookup"
    /\ FreshSession

LookupPositions == {"lookup", "news_returned", "events_returned"}

\* lines 46-68: one call of _query_news(profession)
LookupNews ==
    /\ pc \in LookupPositions
    /\ \E key \in NewsKeys, p \in Professions, resp \in NewsResponses :
          LET r == QueryNews(key, p, resp) IN
          /\ news_api_key' = key
          /\ profession' = p
          /\ requests' = r.requests
          /\ response' = IF r.requests = <<>> THEN NoReply ELSE resp
          /\ warnings' = r.warnings
          /\ news' = r.result
          /\ run_result' = IF r.raised THEN "exception" ELSE "returned"
    /\ pc' = "news_returned"
    /\ UNCHANGED <<openai_api_key, event_api_key, location, session, cache, user_input,
                   events, cache_hit, seen_before, model_locals, surface, first_returned,
                   counters>>

\* lines 71-102: one call of _query_events(location, profession)
LookupEvents ==
    /\ pc \in LookupPositions
    /\ \E key \in EventKeys, l \in Locations, p \in Professions, resp \in EventResponses :
          LET r == QueryEvents(key, l, p, resp) IN
          /\ event_api_key' = key
          /\ location' = l
          /\ profession' = p
          /\ requests' = r.requests
          /\ response' = IF r.requests = <<>> THEN NoReply ELSE resp
          /\ warnings' = r.warnings
          /\ events' = r.result
          /\ run_result' = IF r.raised THEN "exception" ELSE "returned"
    /\ pc' = "events_returned"
    /\ UNCHANGED <<openai_api_key, news_api_key, session, cache, user_input, news,
                   cache_hit, seen_before, model_locals, surface, first_returned, counters>>

LookupNext ==
    \/ LookupNews
    \/ LookupEvents

LookupSpec == LookupInit /\ [][LookupNext]_vars

(***************************************************************************)
(* One turn on its own: a run that has drawn the page of a new transcript  *)
(* and takes any chat input, with any settings.  The cache is shared by    *)
(* every session of the process, so it may already hold a tuple for the    *)
(* run's arguments.                                                        *)
(***************************************************************************)
TurnChatInputs ==
    {NoInput, InputHello, InputBlank, InputBrief, InputBriefUpper, InputNotPrefix,
     InputBriefing}

\* the lists _query_news and _query_events can return
NewsResults == {QueryNews("nk-1", "", resp).result : resp \in NewsResponses}

EventResults == {QueryEvents("ek-1", "Seoul", "", resp).result : resp \in EventResponses}

TurnInit ==
    /\ openai_api_key = "sk-1"
    /\ news_api_key \in NewsKeys
    /\ event_api_key \in EventKeys
    /\ profession \in Professions
    /\ location \in Locations
    /\ has_messages = TRUE
    /\ messages = <<Turn("system", BuildSystemPrompt(profession, location, Today))>>
    /\ cache \in {EmptyMap}
                  \cup {Put(EmptyMap, CacheKey, <<n, e>>) : n \in NewsResults, e \in EventResults}
    /\ first_returned = cache
    /\ pc = "chat_input"
    /\ user_input \in TurnChatInputs
    /\ news = <<>>
    /\ events = <<>>
    /\ response_text = <<>>
    /\ payload = <<>>
    /\ surface = DisplayLoop(messages)
    /\ warnings = 0
    /\ requests = <<>>
    /\ response = NoReply
    /\ run_result = "none"
    /\ run_base = 1
    /\ cache_hit = FALSE
    /\ seen_before = FALSE
    /\ input_count = 0
    /\ edit_count = 0

TurnNext ==
    \/ ChatInput
    \/ Route
    \/ FetchNewsAndEvents
    \/ QueryNewsStep
    \/ QueryEventsStep
    \/ AppendBriefing
    \/ CallModel
    \/ StreamChunk
    \/ StreamEnd
    \/ StreamError

TurnSpec == TurnInit /\ [][TurnNext]_vars

(***************************************************************************)
(* Properties.                                                             *)
(***************************************************************************)
IsVisible(m) == m.role # "system"

Last(seq) == seq[Len(seq)]

\* the provider call itself failed: no connection, an error status or a body
\* that is not JSON
ProviderFailed(resp) == resp.kind \in {"network_error", "http_error", "malformed_json"}

\* C1. Append-only transcript: no step of a session shortens the transcript or
\* changes the role or content of a turn that is already in it.
C1_AppendOnly ==
    [][/\ Len(messages') >= Len(messages)
       /\ \A i \in 1..Len(messages) : messages'[i] = messages[i]]_vars

\* a later run of the script has passed the session-state block and the
\* transcript of two earlier turns is still there
C1_Witness ==
    /\ pc = "display"
    /\ input_count = 2
    /\ run_base >= 4
    /\ Len(messages) = run_base

\* C2 (as the specification states it). When the model stream of a run that
\* took a non-blank input raises after some fragments (possibly none), the run
\* still ends with one assistant turn that holds the fragments received.
C2_StreamErrorKeepsPartialText ==
    (pc = "idle" /\ run_result = "exception" /\ Strip(user_input) # <<>>)
        => /\ Len(messages) > run_base
           /\ Last(messages) = Turn("assistant", response_text)

\* C3 (as the specification states it). An input that is empty or only
\* whitespace adds no turn, sends no request and calls no model.
C3_BlankInputRejected ==
    (has_messages /\ run_base > 0 /\ Strip(user_input) = <<>>)
        => /\ Len(messages) = run_base
           /\ requests = <<>>
           /\ payload = <<>>
           /\ pc \in {"idle", "validate", "init", "display", "chat_input"}

\* a turn that holds a non-blank user input
IsUserTurn(m) == m.role = "user" /\ Strip(m.content) # <<>>

\* C4 (as the specification states it). Between two user turns of the
\* transcript (blank inputs left aside) there is always the assistant turn
\* that answers the first.
C4_OneTurnInFlight ==
    \A i, j \in 1..Len(messages) :
        (i < j /\ IsUserTurn(messages[i]) /\ IsUserTurn(messages[j]))
            => \E k \in (i + 1)..(j - 1) : messages[k].role = "assistant"

\* C5. A run whose stream completes has added user, augmentation, assistant
\* (three turns) for /brief and user, assistant (two turns) otherwise; the
\* first /brief of a fresh session leaves base, user, augmentation, assistant.
C5_TurnGrowth ==
    (pc = "idle" /\ run_result = "completed")
        => /\ messages[run_base + 1] = Turn("user", user_input)
           /\ Last(messages) = Turn("assistant", response_text)
           /\ IF IsBriefCommand(user_input)
              THEN /\ Len(messages) = run_base + 3
                   /\ messages[run_base + 2].role = "system"
                   /\ run_base = 1 =>
                          /\ Len(messages) = 4
                          /\ messages[1].role = "system"
              ELSE Len(messages) = run_base + 2

\* the end-to-end scenario: /brief on a fresh session, one news item, no events,
\* a streamed answer of two fragments
C5_Witness ==
    /\ pc = "idle"
    /\ run_result = "completed"
    /\ user_input = InputBrief
    /\ run_base = 1
    /\ Len(messages) = 4
    /\ Len(news) = 1
    /\ events = <<>>
    /\ Len(response_text) = 2

\* C6. What the replay loop has drawn is the transcript without its system
\* turns, in order, and no system turn is ever on the page.
C6_Visibility ==
    /\ pc = "chat_input" => surface = SelectSeq(messages, IsVisible)
    /\ \A i \in 1..Len(surface) : surface[i].role # "system"

\* a replay of a transcript that holds an augmentation turn and its answer
C6_Witness ==
    /\ pc = "chat_input"
    /\ \E i \in 2..Len(messages) : messages[i].role = "system"
    /\ Len(surface) >= 2
    /\ Len(surface) < Len(messages) - 1

\* C7. Once fetch_news_and_events has returned for a (profession, location)
\* pair, a later call with that pair returns the same tuple and sends no request.
C7_CacheHit ==
    (pc = "augment" /\ seen_before)
        => /\ <<news, events>> = first_returned[CacheKey]
           /\ requests = <<>>

\* a second call for a pair whose first call returned news, with the news
\* credential present
C7_Witness ==
    /\ pc = "augment"
    /\ seen_before
    /\ news_api_key # ""
    /\ news # <<>>

\* C8. Without its credential (or, for events, without a location) a look-up
\* returns the empty list, sends nothing and warns of nothing; with it, a
\* failing provider call yields the empty list and exactly one warning; no
\* exception leaves a look-up.
C8_FetchDegradation ==
    /\ pc \in {"news_returned", "events_returned"} => run_result # "exception"
    /\ pc = "news_returned" =>
          /\ news_api_key = "" => (news = <<>> /\ requests = <<>> /\ warnings = 0)
          /\ news_api_key # "" =>
                /\ Len(requests) = 1
                /\ ProviderFailed(response) => (news = <<>> /\ warnings = 1)
    /\ pc = "events_returned" =>
          /\ (event_api_key = "" \/ location = "") =>
                (events = <<>> /\ requests = <<>> /\ warnings = 0)
          /\ (event_api_key # "" /\ location # "") =>
                /\ Len(requests) = 1
                /\ ProviderFailed(response) => (events = <<>> /\ warnings = 1)

\* _query_news has met a body that is not JSON
C8_Witness ==
    /\ pc = "news_returned"
    /\ news_api_key # ""
    /\ response.kind = "malformed_json"
    /\ news = <<>>
    /\ warnings = 1

\* C9 (as the specification states it). Every run that took a non-blank
\* input is, once back at idle, ended with an assistant turn appended for that
\* input, whatever the look-ups and the stream did.
C9_EveryInputAnswered ==
    (pc = "idle" /\ Strip(user_input) # <<>>)
        => /\ run_result = "completed"
           /\ Last(messages).role = "assistant"

\* C10. The model of a /brief run is called with a payload whose last turn is
\* the augmentation built from the stored results of both look-ups, right
\* after the user's turn.
C10_AugmentBeforeGenerate ==
    (payload # <<>> /\ IsBriefCommand(user_input))
        => /\ Len(payload) >= 3
           /\ Last(payload) = Turn("system", BriefingContext(news, events))
           /\ payload[Len(payload) - 1] = Turn("user", user_input)
           /\ CacheKey \in DOMAIN cache
           /\ cache[CacheKey] = <<news, events>>

\* the stream of a /brief run whose news look-up fell back to the empty list
\* and whose events look-up returned an event
C10_Witness ==
    /\ pc = "streaming"
    /\ IsBriefCommand(user_input)
    /\ ~cache_hit
    /\ news = <<>>
    /\ warnings = 1
    /\ events # <<>>

\* after optional leading whitespace the text reads /brief, in any letter case
ReadsBrief(text) ==
    \E i \in 1..Len(text) :
        /\ \A j \in 1..(i - 1) : text[j] \in Whitespace
        /\ i + Len(BriefCommand) - 1 <= Len(text)
        /\ \A k \in 1..Len(BriefCommand) : LowerChar(text[i + k - 1]) = BriefCommand[k]

\* C11. An accepted input takes the briefing branch exactly when, leading
\* whitespace and letter case aside, it starts with /brief; any other input
\* goes straight to the model, with no look-up and no system turn added.
C11_Routing ==
    /\ pc \in {"fetch", "query_news", "query_events", "augment"} => ReadsBrief(user_input)
    /\ pc \in {"call_model", "streaming"} =>
          (ReadsBrief(user_input) <=> Last(messages).role = "system")
    /\ (pc \in {"call_model", "streaming", "idle"} /\ Truthy(user_input)
            /\ ~ReadsBrief(user_input)) =>
          /\ requests = <<>>
          /\ ~cache_hit
          /\ news = <<>> /\ events = <<>>
          /\ \A i \in (run_base + 1)..Len(messages) : messages[i].role # "system"

\* "  /BRIEF x" has taken the briefing branch
C11_Witness ==
    /\ pc = "fetch"
    /\ user_input = InputBriefUpper

\* C12. The message list of a model call is the whole transcript of that
\* moment, turn for turn, system turns included.
C12_PayloadIsTranscript ==
    /\ pc = "streaming" => payload = messages
    /\ payload # <<>> =>
          /\ Len(payload) <= Len(messages)
          /\ \A i \in 1..Len(payload) : payload[i] = messages[i]
          /\ payload[1].role = "system"

\* the call of a second /brief turn: the payload holds the base instruction
\* and the augmentations of both turns
C12_Witness ==
    /\ pc = "streaming"
    /\ input_count = 2
    /\ Cardinality({i \in 1..Len(payload) : payload[i].role = "system"}) = 3

\* C13. While the model credential is absent a run ends at the validation:
\* it creates no transcript, appends no turn, draws no chat message, sends no
\* request and calls no model.
C13_FatalConfig ==
    openai_api_key = "" =>
        /\ pc \in {"validate", "idle"}
        /\ pc = "idle" => run_result = "stopped"
        /\ Len(messages) = run_base
        /\ requests = <<>>
        /\ payload = <<>>
        /\ surface = <<>>
        /\ edit_count = 0 => (~has_messages /\ messages = <<>>)

\* a page opened without the credential: the run has stopped, no transcript
C13_Witness ==
    /\ pc = "idle"
    /\ run_result = "stopped"
    /\ openai_api_key = ""
    /\ ~has_messages

\* C14 (as the specification states it). The profession and location a
\* briefing uses for its look-ups are the ones the base instruction of the
\* session was built from.
C14_SettingsSnapshot ==
    (has_messages /\ pc \in {"fetch", "query_news", "query_events", "augment"})
        => messages[1].content = BuildSystemPrompt(CacheKey[1], CacheKey[2], Today)

\* positions of a token in a text
Positions(text, token) == {i \in 1..Len(text) : text[i] = token}

\* the text holds the tokens of run, one after the other
HasRun(text, run) ==
    \E i \in 1..(Len(text) - Len(run) + 1) : SubSeq(text, i, i + Len(run) - 1) = run

\* C15. The augmentation holds the news section, one "- title (source)" line
\* per item, exactly when there is news; the events section, one
\* "- date name @ venue" line per item, exactly when there are events; the
\* no-data marker exactly when there is neither; news before events; and the
\* briefing instruction at its end.
C15_AugmentationTemplate ==
    (pc = "call_model" /\ Last(messages).role = "system") =>
        LET text == Last(messages).content
            news_at == Positions(text, "Recent news headlines:\n")
            events_at == Positions(text, "Upcoming events:\n")
        IN /\ Cardinality(news_at) = (IF news # <<>> THEN 1 ELSE 0)
           /\ Cardinality(Positions(text, " (")) = Len(news)
           /\ \A i \in 1..Len(news) :
                 HasRun(text, <<"- ", news[i].title, " (", news[i].source, ")">>)
           /\ Cardinality(events_at) = (IF events # <<>> THEN 1 ELSE 0)
           /\ Cardinality(Positions(text, " @ ")) = Len(events)
           /\ \A i \in 1..Len(events) :
                 HasRun(text, <<"- ">> \o events[i].start
                                \o <<" ", events[i].name, " @ ", events[i].venue>>)
           /\ (Positions(text, "(No external data available)\n\n") # {})
                 <=> (news = <<>> /\ events = <<>>)
           /\ \A i \in news_at, j \in events_at : i < j
           /\ Last(text) =
                 "Please craft a Korean daily briefing in bullet points (max 120 words), then suggest next actions."

\* an augmentation built from two news items and three events
C15_Witness ==
    /\ pc = "call_model"
    /\ Last(messages).role = "system"
    /\ Len(news) = 2
    /\ Len(events) = 3

\* the value of a field, the empty string when the object lacks it
FieldOrEmpty(obj, field) == IF field \in DOMAIN obj THEN obj[field] ELSE ""

\* the nested value obj[outer][inner], the empty string when either is missing
NestedOrEmpty(obj, outer, inner) ==
    IF outer \in DOMAIN obj THEN FieldOrEmpty(obj[outer], inner) ELSE ""

DefensiveNewsItem(art) ==
    [title |-> FieldOrEmpty(art, "title"), url |-> FieldOrEmpty(art, "url"),
     source |-> NestedOrEmpty(art, "source", "name")]

DefensiveEventItem(ev) ==
    [name |-> NestedOrEmpty(ev, "name", "text"), url |-> FieldOrEmpty(ev, "url"),
     start |-> IF "start" \in DOMAIN ev /\ "local" \in DOMAIN ev.start
               THEN Prefix(ev.start.local, DateLen) ELSE "",
     venue |-> NestedOrEmpty(ev, "venue", "name")]

\* C16 (as the specification states it). A successful reply yields one item
\* per entry (per entry of the first three, for events), a missing field
\* read as the empty string.
C16_DefensiveExtraction ==
    /\ (pc = "news_returned" /\ response.kind = "ok") =>
          news = [i \in 1..Len(ArticlesOf(response.data)) |->
                     DefensiveNewsItem(ArticlesOf(response.data)[i])]
    /\ (pc = "events_returned" /\ response.kind = "ok") =>
          events = [i \in 1..Len(EventsOf(response.data)) |->
                       DefensiveEventItem(EventsOf(response.data)[i])]

\* data.get("events", []) before the slice
AllEventsOf(data) == IF "events" \in DOMAIN data THEN data.events ELSE <<>>

\* C20 (as the specification states it). A successful events reply yields
\* the first three events of the reply (all of them when there are fewer), in
\* the provider's order.
C20_EventTruncation ==
    (pc = "events_returned" /\ response.kind = "ok") =>
        LET all == AllEventsOf(response.data)
            n == IF Len(all) < EventLimit THEN Len(all) ELSE EventLimit
        IN /\ Len(events) = n
           /\ \A i \in 1..n : events[i].url = all[i].url

\* the first n fragments of a stream, in arrival order
Fragments(n) == [i \in 1..n |-> Fragment(i)]

\* C17. While a stream runs the page shows the fragments received, in arrival
\* order; when it ends normally after n >= 0 fragments, exactly one assistant
\* turn is appended and it holds those n fragments in order (empty for n = 0).
C17_StreamCompletion ==
    /\ pc = "streaming" =>
          /\ response_text = Fragments(Len(response_text))
          /\ Last(surface) = Turn("assistant", response_text)
    /\ (pc = "idle" /\ run_result = "completed") =>
          /\ Last(messages) = Turn("assistant", Fragments(Len(response_text)))
          /\ Last(surface) = Last(messages)
          /\ Cardinality({i \in (run_base + 1)..Len(messages) :
                             messages[i].role = "assistant"}) = 1

\* a stream that ended without a fragment: the empty assistant turn is there
C17_Witness ==
    /\ pc = "idle"
    /\ run_result = "completed"
    /\ response_text = <<>>
    /\ Len(messages) = run_base + 2
    /\ Last(messages) = Turn("assistant", <<>>)

\* a text build_system_prompt can produce
IsBaseInstruction(text) ==
    \E p \in Professions, l \in Locations : text = BuildSystemPrompt(p, l, Today)

IsBaseTurn(m) == m.role = "system" /\ IsBaseInstruction(m.content)

\* an existing transcript starts with the base instruction and holds no other
C18_OneBaseTurn ==
    IF has_messages
    THEN /\ messages # <<>>
         /\ IsBaseTurn(messages[1])
         /\ \A i \in 2..Len(messages) : ~IsBaseTurn(messages[i])
    ELSE messages = <<>>

\* C18. A transcript that exists starts with the one base system turn, which
\* is there before any user turn, and no later run creates the transcript
\* again or changes or repeats that turn.
C18_InitializedOnce ==
    /\ []C18_OneBaseTurn
    /\ [][has_messages => (has_messages' /\ messages'[1] = messages[1])]_vars

\* a later run, after a chat turn and a sidebar edit: the base turn is still
\* the one of the first run, not the one the settings would give now
C18_Witness ==
    /\ has_messages
    /\ pc = "display"
    /\ input_count >= 1
    /\ edit_count >= 1
    /\ Len(messages) >= 3
    /\ messages[1].content # BuildSystemPrompt(profession, location, Today)

\* the stored tuples whose arguments are this run's profession and location
StoredForPair == {k \in DOMAIN cache : k[1] = profession /\ k[2] = location}

\* C19. A tuple is stored under profession and location alone: a briefing
\* goes to the providers only when nothing is stored for its pair, and one
\* served from the store sends no request and gets the stored tuple,
\* whatever the credentials are now.
C19_CacheIgnoresCredentials ==
    /\ pc \in {"query_news", "query_events"} => StoredForPair = {}
    /\ cache_hit =>
          /\ requests = <<>>
          /\ \E k \in StoredForPair : <<news, events>> = cache[k]

\* a briefing served the empty tuple from the store although the news
\* credential is present now and was changed in this session
C19_Witness ==
    /\ pc = "augment"
    /\ cache_hit
    /\ edit_count = 1
    /\ news_api_key # ""
    /\ location = ""
    /\ news = <<>>
    /\ events = <<>>

====
